---- MODULE Spec2Model ----
(***************************************************************************)
(* Model of app.py, the Streamlit script of the HDC Workflow Builder       *)
(* Agent.  One script run is triggered by one user event (a chat input, a  *)
(* button press) or by st.rerun().  The session state of the script is     *)
(* the state of the model; the language model and the HDC service are the  *)
(* environment, whose answers are drawn from small sets.                   *)
(*                                                                         *)
(* Python dicts keep insertion order: a dict is modelled as a sequence of  *)
(* entries [k, v] with distinct keys.                                      *)
(*                                                                         *)
(* Texts are represented by the features the script reads from them: a     *)
(* user prompt by the keywords it contains and by whether it passes the    *)
(* workflow-name test, an assistant response by its ```json blocks and by  *)
(* whether it contains "workflow name" / "workflow details".               *)
(***************************************************************************)
EXTENDS Naturals, Sequences, FiniteSets

VARIABLES
    messages,                 \* st.session_state.messages
    workflow_type,            \* st.session_state.workflow_type
    workflow_name,            \* st.session_state.workflow_name
    last_configs,             \* st.session_state.last_configs
    deploy_results,           \* st.session_state.deploy_results
    is_asking_questions,      \* st.session_state.is_asking_questions
    continue_to_workflow,     \* st.session_state.continue_to_workflow
    workflow_in_progress,     \* st.session_state.workflow_in_progress
    needs_connection,         \* st.session_state.needs_connection
    platform_type,            \* st.session_state.platform_type
    app_connection_deployed,  \* st.session_state.app_connection_deployed
    pc,                       \* "idle": the script ended and waits for an event;
                              \* "rerun": st.rerun() was called; "direct": the
                              \* function under test is called on its own
    event,                    \* the widget that started the current script run
    error_shown,              \* what st.error displayed in the current script run
    deployment,               \* the deploy_configurations call of the current run
    connection_resolved,      \* the user confirmed an existing Connection, or
                              \* Application / Connection documents were generated
    llm_calls,                \* the requests the language-model service received
                              \* from the current run
    response_blocks           \* the ```json blocks of the response the current
                              \* run's chat turn received

session == <<messages, workflow_type, workflow_name, last_configs, deploy_results,
             is_asking_questions, continue_to_workflow, workflow_in_progress,
             needs_connection, platform_type, app_connection_deployed>>

vars == <<session, pc, event, error_shown, deployment, connection_resolved,
          llm_calls, response_blocks>>

----------------------------------------------------------------------------
(* Python dict, insertion ordered *)

\* Python's None
None == "None"

Entry(k, v) == [k |-> k, v |-> v]

Keys(d) == {d[i].k : i \in DOMAIN d}

Has(d, k) == k \in Keys(d)

Get(d, k) == d[CHOOSE i \in DOMAIN d : d[i].k = k].v

\* d[k] = v : an existing key keeps its position, a new key goes last
Put(d, k, v) ==
    IF Has(d, k)
    THEN [i \in DOMAIN d |-> IF d[i].k = k THEN Entry(k, v) ELSE d[i]]
    ELSE Append(d, Entry(k, v))

\* {k: v for k, v in d.items() if k in K}
Restrict(d, K) == SelectSeq(d, LAMBDA e : e.k \in K)

\* {k: v for k, v in d.items() if k not in K}
Without(d, K) == SelectSeq(d, LAMBDA e : e.k \notin K)

----------------------------------------------------------------------------
(* call_hdc_api and deploy_configurations *)

ConfigKinds == {"application", "connection", "api", "transform", "workflow"}

endpoint_map ==
    [k \in ConfigKinds |->
        CASE k = "application" -> "/api/v1/applications"
          [] k = "connection"  -> "/api/v1/connections"
          [] k = "api"         -> "/api/v1/apis"
          [] k = "transform"   -> "/api/v1/transforms"
          [] k = "workflow"    -> "/api/v1/workflows"]

order_swapped == <<"application", "connection", "api", "workflow", "transform">>

order == <<"application", "connection", "api", "transform", "workflow">>

\* What requests.post can do: raise, return a response with a status and a body,
\* or never return (exc = "never": it is called without a timeout argument, and
\* then waits for the response without limit).
\* body: "empty" (no text), "blank" (whitespace only), "json", "text" (not JSON).
Http(exc, status, body) == [exc |-> exc, status |-> status, body |-> body]

NoHttp == Http("none", 0, "empty")

Statuses == {200, 201, 204, 202, 301, 400, 404, 500}

Bodies == {"empty", "blank", "json", "text"}

Transport == {"ConnectionError", "Timeout", "Exception"}

\* the remote accepts the request and never responds
Never == Http("never", 0, "empty")

HttpOutcomes ==
    {Http("none", s, b) : s \in Statuses, b \in Bodies}
        \cup {Http(e, 0, "empty") : e \in Transport}
        \cup {Never}

\* The answers deploy_configurations is explored with: one per way out of
\* call_hdc_api's try (success, error status, transport failure), and no answer
DeployOutcomes == {Http("none", 200, "json"), Http("none", 500, "text"),
                   Http("Timeout", 0, "empty"), Never}

\* What the service does during a session's deployment of the kinds K: it accepts
\* every document, or it rejects the documents of one kind
SessionHttp(K) ==
    {[k \in K |-> IF k = bad THEN Http("none", 500, "text") ELSE Http("none", 200, "json")] :
        bad \in K \cup {None}}

\* The returned pair (success, response); raises: an exception left the function;
\* blocks: the function does not return
Ret(success, what, status, body) ==
    [success |-> success, response |-> [what |-> what, status |-> status, body |-> body],
     raises |-> FALSE, blocks |-> FALSE]

\* requests.post does not return, so neither does call_hdc_api
Blocks == [Ret(FALSE, "none", 0, "none") EXCEPT !.blocks = TRUE]

call_hdc_api_no_catch_all(endpoint, payload, http) ==
    IF http.exc = "never" THEN Blocks
    ELSE IF http.exc = "none"
    THEN IF http.status \in {200, 201, 204}
         THEN IF http.body \in {"empty", "blank"}
              THEN Ret(TRUE, "message", 0, "Deployed successfully (no response body)")
              ELSE IF http.body = "json"
                   THEN Ret(TRUE, "json", 0, "json")
                   ELSE Ret(TRUE, "message", 0, "text")
         ELSE IF http.body = "json"
              THEN Ret(FALSE, "Status", http.status, "json")
              ELSE IF http.body = "empty"
                   THEN Ret(FALSE, "Status", http.status, "(empty response body)")
                   ELSE Ret(FALSE, "Status", http.status, http.body)
    ELSE IF http.exc = "ConnectionError"
         THEN Ret(FALSE, "Connection Error", 0, "error text")
         ELSE IF http.exc = "Timeout"
              THEN Ret(FALSE, "Timeout Error", 0, "error text")
              ELSE [Ret(FALSE, "none", 0, "none") EXCEPT !.raises = TRUE]

call_hdc_api_any_2xx(endpoint, payload, http) ==
    IF http.exc = "never" THEN Blocks
    ELSE IF http.exc = "none"
    THEN IF http.status \in 200..299
         THEN IF http.body \in {"empty", "blank"}
              THEN Ret(TRUE, "message", 0, "Deployed successfully (no response body)")
              ELSE IF http.body = "json"
                   THEN Ret(TRUE, "json", 0, "json")
                   ELSE Ret(TRUE, "message", 0, "text")
         ELSE IF http.body = "json"
              THEN Ret(FALSE, "Status", http.status, "json")
              ELSE IF http.body = "empty"
                   THEN Ret(FALSE, "Status", http.status, "(empty response body)")
                   ELSE Ret(FALSE, "Status", http.status, http.body)
    ELSE IF http.exc = "ConnectionError"
         THEN Ret(FALSE, "Connection Error", 0, "error text")
         ELSE IF http.exc = "Timeout"
              THEN Ret(FALSE, "Timeout Error", 0, "error text")
              ELSE Ret(FALSE, "Unexpected Error", 0, "error text")

call_hdc_api(endpoint, payload, http) ==
    IF http.exc = "never" THEN Blocks
    ELSE IF http.exc = "none"
    THEN IF http.status \in {200, 201, 204}
         THEN IF http.body \in {"empty", "blank"}
              THEN Ret(TRUE, "message", 0, "Deployed successfully (no response body)")
              ELSE IF http.body = "json"
                   THEN Ret(TRUE, "json", 0, "json")
                   ELSE Ret(TRUE, "message", 0, "text")
         ELSE IF http.body = "json"
              THEN Ret(FALSE, "Status", http.status, "json")
              ELSE IF http.body = "empty"
                   THEN Ret(FALSE, "Status", http.status, "(empty response body)")
                   ELSE Ret(FALSE, "Status", http.status, http.body)
    ELSE IF http.exc = "ConnectionError"
         THEN Ret(FALSE, "Connection Error", 0, "error text")
         ELSE IF http.exc = "Timeout"
              THEN Ret(FALSE, "Timeout Error", 0, "error text")
              ELSE Ret(FALSE, "Unexpected Error", 0, "error text")


\* One deploy_configurations call: its argument, what it returned, the POSTs it
\* issued in order (each with what requests.post did), whether an exception
\* left it, and whether it is blocked in a POST that does not return
Call(configs, results, posts, raised, returned) ==
    [configs |-> configs, results |-> results, posts |-> posts, raised |-> raised,
     returned |-> returned, blocked |-> FALSE]

NoCall == Call(<<>>, <<>>, <<>>, FALSE, FALSE)

Posted(endpoint, payload, http) == [endpoint |-> endpoint, payload |-> payload, http |-> http]

Result(r) == [success |-> r.success, response |-> r.response]

RECURSIVE DeployLoop_abort_on_failure(_, _, _, _)
DeployLoop_abort_on_failure(configs, http, i, acc) ==
    IF i > Len(order) \/ acc.raised \/ acc.blocked THEN acc
    ELSE LET config_type == order[i]
         IN IF Has(configs, config_type)
            THEN LET endpoint == endpoint_map[config_type]
                     payload == Get(configs, config_type)
                     r == call_hdc_api(endpoint, payload, http[config_type])
                     next == [Call(configs,
                                   IF r.raises \/ r.blocks THEN acc.results
                                   ELSE Put(acc.results, config_type, Result(r)),
                                   Append(acc.posts, Posted(endpoint, payload, http[config_type])),
                                   r.raises, FALSE) EXCEPT !.blocked = r.blocks]
                 IN IF r.success
                    THEN DeployLoop_abort_on_failure(configs, http, i + 1, next)
                    ELSE next
            ELSE DeployLoop_abort_on_failure(configs, http, i + 1, acc)

RECURSIVE DeployLoop_entry_for_absent(_, _, _, _)
DeployLoop_entry_for_absent(configs, http, i, acc) ==
    IF i > Len(order) \/ acc.raised \/ acc.blocked THEN acc
    ELSE LET config_type == order[i]
         IN IF Has(configs, config_type)
            THEN LET endpoint == endpoint_map[config_type]
                     payload == Get(configs, config_type)
                     r == call_hdc_api(endpoint, payload, http[config_type])
                 IN DeployLoop_entry_for_absent(configs, http, i + 1,
                        [Call(configs,
                              IF r.raises \/ r.blocks THEN acc.results
                              ELSE Put(acc.results, config_type, Result(r)),
                              Append(acc.posts, Posted(endpoint, payload, http[config_type])),
                              r.raises, FALSE) EXCEPT !.blocked = r.blocks])
            ELSE DeployLoop_entry_for_absent(configs, http, i + 1,
                        Call(configs,
                             Put(acc.results, config_type,
                                 Result(Ret(FALSE, "missing", 0, "missing"))),
                             acc.posts, FALSE, FALSE))

\* for config_type in order: if config_type in configs: ... (lines 96-103), from
\* position i of order on; http[k] is what requests.post does when kind k is posted
RECURSIVE DeployLoop(_, _, _, _)
DeployLoop(configs, http, i, acc) ==
    IF i > Len(order) \/ acc.raised \/ acc.blocked THEN acc
    ELSE LET config_type == order[i]
         IN IF Has(configs, config_type)
            THEN LET endpoint == endpoint_map[config_type]
                     payload == Get(configs, config_type)
                     r == call_hdc_api(endpoint, payload, http[config_type])
                 IN DeployLoop(configs, http, i + 1,
                        [Call(configs,
                              IF r.raises \/ r.blocks THEN acc.results
                              ELSE Put(acc.results, config_type, Result(r)),
                              Append(acc.posts, Posted(endpoint, payload, http[config_type])),
                              r.raises, FALSE) EXCEPT !.blocked = r.blocks])
            ELSE DeployLoop(configs, http, i + 1, acc)

\* deploy_configurations (lines 80-105)
deploy_configurations(configs, http) ==
    LET call == DeployLoop(configs, http, 1, Call(configs, <<>>, <<>>, FALSE, FALSE))
    IN [call EXCEPT !.returned = ~call.blocked]

----------------------------------------------------------------------------
(* Session state after construction (lines 118-166) *)

NoResults == [none |-> TRUE, results |-> <<>>]

Results(r) == [none |-> FALSE, results |-> r]

Msg(role, content) == [role |-> role, content |-> content]

\* A text, by what the script reads from it: does it contain "workflow name",
\* does it contain "workflow details", does it end with the "configurations are
\* ready" sentence, and is it a candidate workflow name (shorter than 50
\* characters and not starting with "{")
Text(name, details, ready, short) ==
    [name |-> name, details |-> details, ready |-> ready, short |-> short]

Welcome == Msg("assistant", Text(FALSE, FALSE, FALSE, FALSE))

\* "I want to continue to create the workflow now. Please ask me the workflow details."
trigger_message == Text(FALSE, TRUE, FALSE, FALSE)

\* "Please provide your workflow details so I can help you configure it."
ContinueFallback == Text(FALSE, TRUE, FALSE, FALSE)

SessionInit ==
    /\ messages = <<Welcome>>
    /\ workflow_type = None
    /\ workflow_name = None
    /\ last_configs = <<>>
    /\ deploy_results = NoResults
    /\ is_asking_questions = FALSE
    /\ continue_to_workflow = FALSE
    /\ workflow_in_progress = FALSE
    /\ needs_connection = FALSE
    /\ platform_type = None
    /\ app_connection_deployed = FALSE

Init ==
    /\ SessionInit
    /\ pc = "idle"
    /\ event = "start"
    /\ error_shown = "none"
    /\ deployment = NoCall
    /\ connection_resolved = FALSE
    /\ llm_calls = 0
    /\ response_blocks = <<>>

----------------------------------------------------------------------------
(* deploy_configurations on every input mapping *)

\* every mapping over the five kinds, in every insertion order
AllConfigs ==
    {[i \in DOMAIN s |-> Entry(s[i], "v1")] :
        s \in {t \in UNION {[1..n -> ConfigKinds] : n \in 0..Cardinality(ConfigKinds)} :
                  \A i, j \in DOMAIN t : i # j => t[i] # t[j]}}

InitDeploy ==
    /\ SessionInit
    /\ pc = "direct"
    /\ event = "start"
    /\ error_shown = "none"
    /\ deployment \in {Call(c, <<>>, <<>>, FALSE, FALSE) : c \in AllConfigs}
    /\ connection_resolved = FALSE
    /\ llm_calls = 0
    /\ response_blocks = <<>>

\* deploy_configurations(configs) is called and returns
DeployDirect(http) ==
    /\ pc = "direct"
    /\ ~deployment.returned
    /\ ~deployment.blocked
    /\ deployment' = deploy_configurations(deployment.configs, http)
    /\ UNCHANGED <<session, pc, event, error_shown, connection_resolved,
                   llm_calls, response_blocks>>

NextDeploy ==
    \E http \in [Keys(deployment.configs) -> DeployOutcomes] : DeployDirect(http)

SpecDeploy == InitDeploy /\ [][NextDeploy]_vars

(* deploy_configurations on one or two documents, the call being made: a call
   that can take its next step takes it, so only the remote keeps it from
   returning *)

InitRemote ==
    /\ InitDeploy
    /\ Len(deployment.configs) \in {1, 2}

SpecRemote == InitRemote /\ [][NextDeploy]_vars /\ WF_vars(NextDeploy)

(* call_hdc_api on every answer of the service: one document is deployed *)

InitCall ==
    /\ InitDeploy
    /\ Len(deployment.configs) = 1

NextCall ==
    \E http \in [Keys(deployment.configs) -> HttpOutcomes] : DeployDirect(http)

SpecCall == InitCall /\ [][NextCall]_vars

----------------------------------------------------------------------------
(* The environment of a chat turn: the user's prompt and the model's response *)

MaxMsgs == 5

WorkflowTypes == <<"Call API and return raw response",
                   "Call API and transform the response",
                   "Transform JSON to different formated JSON",
                   "Transform HL7 to JSON">>

\* A prompt: types = the options whose keywords it contains ("raw response" /
\* "option 1" / "type 1", ...), plats = the platform names it contains,
\* short = it passes the workflow-name test, confirms = it says that a Connection
\* and an Application already exist in HDC
Prompt(types, plats, short, confirms) ==
    [types |-> types, plats |-> plats, short |-> short, confirms |-> confirms]

Prompts ==
    { Prompt({1}, {}, TRUE, FALSE),                   \* "option 1"
      Prompt({2, 3}, {}, TRUE, FALSE),                \* "option 3, or maybe type 2"
      Prompt({3}, {}, TRUE, FALSE),                   \* "transform json"
      Prompt({4}, {"cerner"}, TRUE, FALSE),           \* "option 4 for cerner"
      Prompt({1}, {"athena"}, TRUE, FALSE),           \* "option 1, on athena"
      Prompt({}, {"athena", "cerner"}, TRUE, FALSE),  \* "athena or cerner?"
      Prompt({}, {}, TRUE, TRUE),                     \* "yes, I already have them"
      Prompt({}, {}, TRUE, FALSE),                    \* "GetPatients", "Epic"
      Prompt({}, {}, FALSE, FALSE) }                  \* a JSON sample, a long answer

\* A ```json block of a response: the top-level keys of the value, the document
\* it stands for, whether json.loads accepts it, and whether the value is a
\* container (a scalar makes `"workflowId" in config` raise TypeError)
Block(keys, doc, parses, container) ==
    [keys |-> keys, doc |-> doc, parses |-> parses, container |-> container]

Wf(d)   == Block({"workflowId", "description", "steps"}, d, TRUE, TRUE)
Api(d)  == Block({"apiId", "apiPath", "bodyTemplateId"}, d, TRUE, TRUE)
Tr(d)   == Block({"transformId", "propertyGroups"}, d, TRUE, TRUE)
App(d)  == Block({"applicationId", "name", "clientId"}, d, TRUE, TRUE)
Conn(d) == Block({"connectionId", "baseUrl", "applications"}, d, TRUE, TRUE)
Tpl(d)  == Block({"templateId", "templateBody"}, d, TRUE, TRUE)
Pay(d)  == Block({"patientid"}, d, TRUE, TRUE)
Bad(d)  == Block({"workflowId"}, d, FALSE, TRUE)
Num(d)  == Block({}, d, TRUE, FALSE)

\* A response of the language model: its blocks, whether its text contains
\* "workflow name" / "workflow details", and whether those words stand after the
\* last code fence (tail) or before it
Response(blocks, name, details, tail) ==
    [blocks |-> blocks, name |-> name, details |-> details, tail |-> tail]

\* Plain(b): a response that is its blocks and words about them
Plain(blocks) == Response(blocks, FALSE, FALSE, FALSE)

Responses ==
    { \* questions and answers without documents
      Plain(<<>>), Response(<<>>, TRUE, FALSE, FALSE), Response(<<>>, TRUE, TRUE, FALSE),
      \* Application and Connection
      Plain(<<App("v1"), Conn("v1")>>), Plain(<<App("v1")>>), Plain(<<Conn("v1"), Pay("v1")>>),
      Response(<<App("v1"), Conn("v1")>>, TRUE, TRUE, TRUE),
      Response(<<App("v1"), Conn("v1")>>, FALSE, TRUE, FALSE),
      \* the documents of a workflow
      Plain(<<Api("v1"), Tr("v1"), Wf("v1")>>), Plain(<<Tr("v1"), Wf("v1")>>),
      Plain(<<Wf("v1")>>), Plain(<<Api("v1")>>), Plain(<<Wf("v1"), Wf("v2")>>),
      Plain(<<Api("v1"), Tpl("v1"), Wf("v1"), Pay("v1")>>),
      Plain(<<Conn("v1"), Api("v1"), Wf("v1")>>),
      \* blocks of no kind, blocks that do not parse, values that are no objects
      Plain(<<Tpl("v1")>>), Plain(<<Bad("v1")>>), Plain(<<Wf("v1"), Num("v1")>>),
      Plain(<<Num("v1"), Wf("v2")>>),
      \* documents that do not follow the rules of the system prompt
      Plain(<<Api("v3"), Tr("v3"), Wf("v3")>>) }

----------------------------------------------------------------------------
(* What the documents say.  The script reads of a block only its top-level
   keys; the documents are written by the language model, which the system
   prompt instructs (lines 273-1030) and nothing else constrains.  "v1" and
   "v2" are documents as the prompt's examples give them.  "v3" are documents
   constructed here to break the prompt's rules: they stand for what the
   script would accept, since it reads only the id keys of a block; no response
   of the language model holding them was observed. *)

\* one step of a Workflow: input and output are sets of <<name, value>> pairs
WfStep(stepType, sequence, input, output) ==
    [stepType |-> stepType, sequence |-> sequence, input |-> input, output |-> output]

\* the step patterns of lines 792-876
HttpCallStep(sequence) ==
    WfStep("HttpCallStep", sequence, {<<"apiId", "Project-API">>},
           {<<"rawApiResponse", "ResponseData">>})

HttpCallStepWithTransform(sequence) ==
    WfStep("HttpCallStep", sequence,
           {<<"apiId", "Project-API">>, <<"transformId", "Project-Response-DT">>},
           {<<"transformedData", "TransformedData">>, <<"rawApiResponse", "ResponseData">>})

DeserializeObjectStep(sequence, from) ==
    WfStep("DeserializeObjectStep", sequence, {<<"data", from>>},
           {<<"deserializedData", "OutputObject">>})

DataTransformStep(sequence) ==
    WfStep("DataTransformStep", sequence,
           {<<"transformDataInput", "Body">>, <<"transformId", "Project-DT">>},
           {<<"transformedData", "TransformedData">>})

SetReturnDataStep(sequence, from) ==
    WfStep("SetReturnDataStep", sequence, {<<"Result", from>>}, {})

\* the steps of a Workflow document
WorkflowSteps(doc) ==
    CASE doc = "v1" -> <<HttpCallStep(0), DeserializeObjectStep(1, "rawApiResponse"),
                         SetReturnDataStep(2, "deserializedData")>>
      [] doc = "v2" -> <<DataTransformStep(0), SetReturnDataStep(1, "transformedData")>>
      [] doc = "v3" -> <<WfStep("HttpCallStep", 1, {<<"apiId", "Project-API">>},
                                {<<"rawApiResponse", "RawResponse">>}),
                         SetReturnDataStep(3, "ResponseData"),
                         DeserializeObjectStep(4, "OutputObject")>>

\* one segment of a path template: {name} is dynamic, name is literal
Segment(name, dynamic) == [name |-> name, dynamic |-> dynamic]

PathParameter(value, valueType) == [value |-> value, valueType |-> valueType]

\* an API document, with the path template the user gave for it
ApiDoc(doc) ==
    CASE doc = "v1" ->      \* /patients/{patientid}/patientname/{patientname}
            [template |-> <<Segment("patients", FALSE), Segment("patientid", TRUE),
                            Segment("patientname", FALSE), Segment("patientname", TRUE)>>,
             apiPath |-> "patients",
             pathParameters |-> <<PathParameter("patientid", "Value"),
                                  PathParameter("patientname", "Literal"),
                                  PathParameter("patientname", "Value")>>]
      [] doc = "v2" ->      \* /patients
            [template |-> <<Segment("patients", FALSE)>>,
             apiPath |-> "patients",
             pathParameters |-> <<>>]
      [] doc = "v3" ->      \* the template of "v1", literal and placeholder merged
            [template |-> <<Segment("patients", FALSE), Segment("patientid", TRUE),
                            Segment("patientname", FALSE), Segment("patientname", TRUE)>>,
             apiPath |-> "patients",
             pathParameters |-> <<PathParameter("patientid", "Value"),
                                  PathParameter("patientname", "Value")>>]

\* a property path: the array it indexes into and at which index ("" if it is
\* relative to the item the group locates), and the field it reads
PropertyPath(array, index, field) == [array |-> array, index |-> index, field |-> field]

PropertyGroup(key, locator, paths) == [key |-> key, locator |-> locator, paths |-> paths]

\* the property groups of a Data Transform document
TransformGroups(doc) ==
    CASE doc = "v1" ->      \* the array example of lines 704-730
            <<PropertyGroup("patients", "$.patients", {PropertyPath("", "", "name")})>>
      [] doc = "v2" ->      \* the flat example of lines 732-758
            <<PropertyGroup("", "", {PropertyPath("", "", "field")})>>
      [] doc = "v3" ->      \* $.patients[0].name inside the group, a group per index
            <<PropertyGroup("patients", "$.patients",
                            {PropertyPath("$.patients", "0", "name")}),
              PropertyGroup("patient0", "", {PropertyPath("$.patients", "0", "id")}),
              PropertyGroup("patient1", "", {PropertyPath("$.patients", "1", "id")})>>

----------------------------------------------------------------------------
(* Pure helpers of the script *)

\* extract_json_blocks: the blocks json.loads accepts, in order (lines 53-64)
extract_json_blocks(text) == SelectSeq(text.blocks, LAMBDA b : b.parses)

identify_config_type_with_template(config) ==
    IF "workflowId" \in config.keys THEN "workflow"
    ELSE IF "apiId" \in config.keys THEN "api"
    ELSE IF "transformId" \in config.keys THEN "transform"
    ELSE IF "applicationId" \in config.keys THEN "application"
    ELSE IF "connectionId" \in config.keys THEN "connection"
    ELSE IF "templateId" \in config.keys THEN "template"
    ELSE None

\* identify_config_type (lines 66-78)
identify_config_type(config) ==
    IF "workflowId" \in config.keys THEN "workflow"
    ELSE IF "apiId" \in config.keys THEN "api"
    ELSE IF "transformId" \in config.keys THEN "transform"
    ELSE IF "applicationId" \in config.keys THEN "application"
    ELSE IF "connectionId" \in config.keys THEN "connection"
    ELSE None

\* the text of a prompt, as the history keeps it: no prompt of Prompts contains
\* "workflow name" or "workflow details"; the workflow-name test reads the
\* prompt itself (user_msgs[-1] is the prompt of the running turn)
UserText(p) == Text(FALSE, FALSE, FALSE, FALSE)

\* the if/elif chain on user_msg_lower (lines 1092-1103); 0 = no branch taken
DetectType(p) ==
    IF 1 \in p.types THEN 1
    ELSE IF 2 \in p.types THEN 2
    ELSE IF 3 \in p.types THEN 3
    ELSE IF 4 \in p.types THEN 4
    ELSE 0

TypeDetection_ignores_selection(p) == DetectType(p)

\* `if not st.session_state.workflow_type:` around the chain (line 1091)
TypeDetection(p) == IF workflow_type = None THEN DetectType(p) ELSE 0

NeedsConnection_for_transforms(detected) == detected \in {1, 2, 3}

\* needs_connection as the branch taken assigns it (lines 1094, 1097, 1100, 1103)
NeedsConnection(detected) == detected \in {1, 2}

\* lines 1107-1110
DetectPlatform(p) ==
    IF "athena" \in p.plats THEN "Athena"
    ELSE IF "cerner" \in p.plats THEN "Cerner"
    ELSE None

PlatformDetection_any_type(nc, p) ==
    IF platform_type = None THEN DetectPlatform(p) ELSE platform_type

\* platform_type after lines 1106-1110, nc being needs_connection at line 1106
PlatformDetection(nc, p) ==
    IF nc /\ platform_type = None THEN DetectPlatform(p) ELSE platform_type

\* the condition of the trigger injection (lines 174-177)
ContinueGuard ==
    /\ continue_to_workflow
    /\ ~ \E i \in DOMAIN messages :
            /\ i > Len(messages) - 2
            /\ messages[i].role = "assistant"
            /\ messages[i].content.details

\* the condition of line 1184, on given values
AppConnGuard(acd, wip) == acd /\ ~wip

\* the for loop of lines 1137-1140 from block i on: the store it leaves, and
\* whether identify_config_type raised on the way
RECURSIVE StoreConfigs(_, _, _)
StoreConfigs(configs, extracted, i) ==
    IF i > Len(extracted) THEN [configs |-> configs, raised |-> FALSE]
    ELSE IF ~extracted[i].container THEN [configs |-> configs, raised |-> TRUE]
    ELSE LET config_type == identify_config_type(extracted[i])
         IN IF config_type # None
            THEN StoreConfigs(Put(configs, config_type, extracted[i].doc), extracted, i + 1)
            ELSE StoreConfigs(configs, extracted, i + 1)

\* just_generated_types (line 1144)
GeneratedTypes(extracted) == {identify_config_type(extracted[i]) : i \in DOMAIN extracted}

\* only_app_connection (lines 1145-1147)
OnlyAppConnection(extracted) ==
    /\ Len(extracted) > 0
    /\ \A t \in GeneratedTypes(extracted) :
          t # None => t \in {"application", "connection"}

----------------------------------------------------------------------------
(* Script runs *)

\* a script run that does not get to a language-model call
NoModelCall ==
    /\ llm_calls' = 0
    /\ response_blocks' = <<>>

\* client = Groq(api_key=groq_api_key) (line 17) passes no max_retries, so the
\* client's retry count is the library's default.  The library is not part of
\* src/; the default of 2 (a request failing with a connection error or status
\* 408, 409, 429 or 5xx is sent again) is taken from the library's
\* documentation as recalled, not read from installed code.
max_retries == 2

\* a language-model call that raises: after one request (an error the client
\* does not retry) or after the first request and every retry
ModelCallRaises ==
    /\ llm_calls' \in {1, 1 + max_retries}
    /\ response_blocks' = <<>>

\* a language-model call that returns at the first request, in a run that reads
\* no blocks from the response
ModelCallReturns ==
    /\ llm_calls' = 1
    /\ response_blocks' = <<>>

\* lines 1184-1189 at the end of a chat run: the flags and where the script goes
AfterChat(acd, wip) ==
    IF AppConnGuard(acd, wip)
    THEN /\ app_connection_deployed' = FALSE
         /\ continue_to_workflow' = TRUE
         /\ workflow_in_progress' = TRUE
         /\ pc' = "rerun"
    ELSE /\ app_connection_deployed' = acd
         /\ workflow_in_progress' = wip
         /\ UNCHANGED continue_to_workflow
         /\ pc' = "idle"

\* A chat input whose language-model call returns (lines 260-1177, then 1183-1253
\* with no button pressed)
ChatTurn(prompt, response) ==
    /\ pc = "idle"
    /\ ~ContinueGuard
    /\ Len(messages) + 2 <= MaxMsgs
    /\ LET m1 == Append(messages, Msg("user", UserText(prompt)))
           detected == TypeDetection(prompt)
           wt == IF detected # 0 THEN WorkflowTypes[detected] ELSE workflow_type
           nc == IF detected # 0 THEN NeedsConnection(detected) ELSE needs_connection
           pt == PlatformDetection(nc, prompt)
           asked == \E i \in DOMAIN m1 :
                       m1[i].role = "assistant" /\ m1[i].content.name
           wn == IF workflow_name = None /\ response.name THEN workflow_name
                 ELSE IF workflow_name = None /\ Len(m1) > 2 /\ asked /\ prompt.short
                      THEN "name"
                      ELSE workflow_name
           extracted == extract_json_blocks(response)
           stored == StoreConfigs(last_configs, extracted, 1)
           full == Text(response.name, response.details, FALSE, FALSE)
           cut == Text(response.name /\ ~response.tail,
                       response.details /\ ~response.tail, TRUE, FALSE)
           wip == IF "workflow" \in GeneratedTypes(extracted)
                  THEN FALSE ELSE workflow_in_progress
       IN /\ workflow_type' = wt
          /\ needs_connection' = nc
          /\ platform_type' = pt
          /\ workflow_name' = wn
          /\ last_configs' = stored.configs
          /\ connection_resolved' =
                \/ connection_resolved
                \/ prompt.confirms /\ workflow_type # None /\ needs_connection
                \/ \E k \in {"application", "connection"} : Has(stored.configs, k)
          /\ UNCHANGED deploy_results
          /\ IF stored.raised
             THEN \* TypeError in identify_config_type, caught at line 1179
                  /\ messages' = m1
                  /\ error_shown' = "TypeError"
                  /\ UNCHANGED is_asking_questions
                  /\ AfterChat(app_connection_deployed, workflow_in_progress)
             ELSE IF OnlyAppConnection(extracted)
             THEN \* lines 1154-1165, ending in st.rerun()
                  /\ messages' = Append(m1, Msg("assistant", cut))
                  /\ error_shown' = "none"
                  /\ is_asking_questions' = FALSE
                  /\ workflow_in_progress' = wip
                  /\ UNCHANGED <<app_connection_deployed, continue_to_workflow>>
                  /\ pc' = "rerun"
             ELSE /\ messages' = Append(m1, Msg("assistant", full))
                  /\ error_shown' = "none"
                  /\ is_asking_questions' =
                        IF Len(extracted) > 0 THEN FALSE
                        ELSE stored.configs = <<>>
                  /\ AfterChat(app_connection_deployed, wip)
    /\ event' = "chat"
    /\ deployment' = NoCall
    /\ llm_calls' = 1
    /\ response_blocks' = response.blocks

ChatTurnError_detects_first(prompt) ==
    /\ pc = "idle"
    /\ ~ContinueGuard
    /\ Len(messages) + 1 <= MaxMsgs
    /\ messages' = Append(messages, Msg("user", UserText(prompt)))
    /\ error_shown' = "llm"
    /\ event' = "chat"
    /\ deployment' = NoCall
    /\ ModelCallRaises
    /\ AfterChat(app_connection_deployed, workflow_in_progress)
    /\ workflow_type' = IF workflow_type = None /\ DetectType(prompt) # 0
                        THEN WorkflowTypes[DetectType(prompt)] ELSE workflow_type
    /\ UNCHANGED <<workflow_name, last_configs, deploy_results,
                   is_asking_questions, needs_connection, platform_type,
                   connection_resolved>>

\* A chat input whose language-model call raises (lines 260-271, 1064, 1179-1181)
ChatTurnError(prompt) ==
    /\ pc = "idle"
    /\ ~ContinueGuard
    /\ Len(messages) + 1 <= MaxMsgs
    /\ messages' = Append(messages, Msg("user", UserText(prompt)))
    /\ error_shown' = "llm"
    /\ event' = "chat"
    /\ deployment' = NoCall
    /\ ModelCallRaises
    /\ AfterChat(app_connection_deployed, workflow_in_progress)
    /\ UNCHANGED <<workflow_type, workflow_name, last_configs, deploy_results,
                   is_asking_questions, needs_connection, platform_type,
                   connection_resolved>>

\* The texts a continue turn can store: the model's text, or the fallback
ContinueTexts ==
    { Text(n, d, FALSE, FALSE) : n \in BOOLEAN, d \in BOOLEAN } \cup {ContinueFallback}

\* The trigger injection (lines 174-257), language-model call returning.  It runs
\* at the top of any script run, so an event that started the run is dropped by
\* its st.rerun()
ContinueTurn(text) ==
    /\ pc \in {"idle", "rerun"}
    /\ ContinueGuard
    /\ Len(messages) + 2 <= MaxMsgs
    /\ messages' = Append(Append(messages, Msg("user", trigger_message)),
                          Msg("assistant", text))
    /\ continue_to_workflow' = FALSE
    /\ error_shown' = "none"
    /\ event' = "trigger"
    /\ deployment' = NoCall
    /\ ModelCallReturns
    /\ pc' = "rerun"
    /\ UNCHANGED <<workflow_type, workflow_name, last_configs, deploy_results,
                   is_asking_questions, workflow_in_progress, needs_connection,
                   platform_type, app_connection_deployed, connection_resolved>>

\* The trigger injection, language-model call raising (lines 255-257)
ContinueTurnError ==
    /\ pc \in {"idle", "rerun"}
    /\ ContinueGuard
    /\ Len(messages) + 1 <= MaxMsgs
    /\ messages' = Append(messages, Msg("user", trigger_message))
    /\ continue_to_workflow' = FALSE
    /\ error_shown' = "llm"
    /\ event' = "trigger"
    /\ deployment' = NoCall
    /\ ModelCallRaises
    /\ pc' = "rerun"
    /\ UNCHANGED <<workflow_type, workflow_name, last_configs, deploy_results,
                   is_asking_questions, workflow_in_progress, needs_connection,
                   platform_type, app_connection_deployed, connection_resolved>>

\* A rerun that reaches lines 1184-1189 with the condition true
AppConnDeployed ==
    /\ pc = "rerun"
    /\ ~ContinueGuard
    /\ AppConnGuard(app_connection_deployed, workflow_in_progress)
    /\ app_connection_deployed' = FALSE
    /\ continue_to_workflow' = TRUE
    /\ workflow_in_progress' = TRUE
    /\ error_shown' = "none"
    /\ event' = "rerun"
    /\ deployment' = NoCall
    /\ NoModelCall
    /\ pc' = "rerun"
    /\ UNCHANGED <<messages, workflow_type, workflow_name, last_configs, deploy_results,
                   is_asking_questions, needs_connection, platform_type,
                   connection_resolved>>

RerunDone_redeploys ==
    /\ pc = "rerun"
    /\ ~ContinueGuard
    /\ ~AppConnGuard(app_connection_deployed, workflow_in_progress)
    /\ error_shown' = "none"
    /\ event' = "rerun"
    /\ deployment' = deploy_configurations(last_configs,
                        [k \in Keys(last_configs) |-> Http("none", 200, "json")])
    /\ NoModelCall
    /\ pc' = "idle"
    /\ UNCHANGED <<session, connection_resolved>>

\* A rerun that runs to the end of the script
RerunDone ==
    /\ pc = "rerun"
    /\ ~ContinueGuard
    /\ ~AppConnGuard(app_connection_deployed, workflow_in_progress)
    /\ error_shown' = "none"
    /\ event' = "rerun"
    /\ deployment' = NoCall
    /\ NoModelCall
    /\ pc' = "idle"
    /\ UNCHANGED <<session, connection_resolved>>

\* What the Deploy section shows (lines 1192-1198, 1234)
DeploySection == last_configs # <<>> /\ ~is_asking_questions

has_app_or_connection == \E k \in {"application", "connection"} : Has(last_configs, k)

has_workflow == Has(last_configs, "workflow")

AppConnButtons ==
    DeploySection /\ has_app_or_connection /\ ~has_workflow /\ ~workflow_in_progress

DeployAllButton ==
    DeploySection /\ ~AppConnButtons /\ has_workflow

\* A script run started by a widget gets as far as the widgets
ReachesWidgets ==
    /\ pc = "idle"
    /\ ~ContinueGuard
    /\ ~AppConnGuard(app_connection_deployed, workflow_in_progress)

PressDeployAppConn_clears_store(http) ==
    /\ ReachesWidgets
    /\ AppConnButtons
    /\ LET partial_configs == Restrict(last_configs, {"application", "connection"})
           call == deploy_configurations(partial_configs, http)
           all_success == \A i \in DOMAIN call.results : call.results[i].v.success
       IN /\ deployment' = call
          /\ IF call.raised
             THEN /\ UNCHANGED <<last_configs, app_connection_deployed, deploy_results>>
                  /\ pc' = "idle"
             ELSE /\ IF all_success
                     THEN /\ last_configs' = <<>>
                          /\ app_connection_deployed' = TRUE
                          /\ UNCHANGED deploy_results
                     ELSE /\ deploy_results' = Results(call.results)
                          /\ UNCHANGED <<last_configs, app_connection_deployed>>
                  /\ pc' = "rerun"
    /\ error_shown' = "none"
    /\ event' = "deploy_app_connection"
    /\ NoModelCall
    /\ UNCHANGED <<messages, workflow_type, workflow_name, is_asking_questions,
                   continue_to_workflow, workflow_in_progress, needs_connection,
                   platform_type, connection_resolved>>

PressDeployAppConn_drops_deployed(http) ==
    /\ ReachesWidgets
    /\ AppConnButtons
    /\ LET partial_configs == Restrict(last_configs, {"application", "connection"})
           call == deploy_configurations(partial_configs, http)
           all_success == \A i \in DOMAIN call.results : call.results[i].v.success
       IN /\ deployment' = call
          /\ IF call.raised
             THEN /\ UNCHANGED <<last_configs, app_connection_deployed, deploy_results>>
                  /\ pc' = "idle"
             ELSE /\ IF all_success
                     THEN /\ last_configs' =
                                Without(last_configs, {"application", "connection"})
                          /\ app_connection_deployed' = TRUE
                          /\ UNCHANGED deploy_results
                     ELSE /\ deploy_results' = Results(call.results)
                          /\ last_configs' =
                                Without(last_configs,
                                        {k \in Keys(call.results) :
                                            Get(call.results, k).success})
                          /\ UNCHANGED app_connection_deployed
                  /\ pc' = "rerun"
    /\ error_shown' = "none"
    /\ event' = "deploy_app_connection"
    /\ NoModelCall
    /\ UNCHANGED <<messages, workflow_type, workflow_name, is_asking_questions,
                   continue_to_workflow, workflow_in_progress, needs_connection,
                   platform_type, connection_resolved>>

\* "Deploy Application & Connection Now" pressed: lines 1207-1217
PressDeployAppConn(http) ==
    /\ ReachesWidgets
    /\ AppConnButtons
    /\ LET partial_configs == Restrict(last_configs, {"application", "connection"})
           call == deploy_configurations(partial_configs, http)
           all_success == \A i \in DOMAIN call.results : call.results[i].v.success
       IN /\ deployment' = call
          /\ IF call.raised
             THEN /\ UNCHANGED <<last_configs, app_connection_deployed, deploy_results>>
                  /\ pc' = "idle"
             ELSE /\ IF all_success
                     THEN /\ last_configs' =
                                Without(last_configs, {"application", "connection"})
                          /\ app_connection_deployed' = TRUE
                          /\ UNCHANGED deploy_results
                     ELSE /\ deploy_results' = Results(call.results)
                          /\ UNCHANGED <<last_configs, app_connection_deployed>>
                  /\ pc' = "rerun"
    /\ error_shown' = "none"
    /\ event' = "deploy_app_connection"
    /\ NoModelCall
    /\ UNCHANGED <<messages, workflow_type, workflow_name, is_asking_questions,
                   continue_to_workflow, workflow_in_progress, needs_connection,
                   platform_type, connection_resolved>>

\* "Continue to Workflow First" pressed: lines 1219-1222
PressContinue ==
    /\ ReachesWidgets
    /\ AppConnButtons
    /\ continue_to_workflow' = TRUE
    /\ workflow_in_progress' = TRUE
    /\ error_shown' = "none"
    /\ event' = "continue"
    /\ deployment' = NoCall
    /\ NoModelCall
    /\ pc' = "rerun"
    /\ UNCHANGED <<messages, workflow_type, workflow_name, last_configs, deploy_results,
                   is_asking_questions, needs_connection, platform_type,
                   app_connection_deployed, connection_resolved>>

\* "Deploy All Configurations to HDC" pressed: lines 1241-1244; the script then
\* runs to its end
PressDeployAll(http) ==
    /\ ReachesWidgets
    /\ DeployAllButton
    /\ LET call == deploy_configurations(last_configs, http)
       IN /\ deployment' = call
          /\ deploy_results' = IF call.raised THEN deploy_results
                               ELSE Results(call.results)
    /\ error_shown' = "none"
    /\ event' = "deploy_all"
    /\ NoModelCall
    /\ pc' = "idle"
    /\ UNCHANGED <<messages, workflow_type, workflow_name, last_configs,
                   is_asking_questions, continue_to_workflow, workflow_in_progress,
                   needs_connection, platform_type, app_connection_deployed,
                   connection_resolved>>

ClearChat_keeps_platform ==
    /\ ReachesWidgets
    /\ messages' = <<Welcome>>
    /\ workflow_type' = None
    /\ workflow_name' = None
    /\ needs_connection' = FALSE
    /\ last_configs' = <<>>
    /\ deploy_results' = NoResults
    /\ continue_to_workflow' = FALSE
    /\ workflow_in_progress' = FALSE
    /\ connection_resolved' = FALSE
    /\ error_shown' = "none"
    /\ event' = "clear"
    /\ deployment' = NoCall
    /\ NoModelCall
    /\ pc' = "rerun"
    /\ UNCHANGED <<platform_type, is_asking_questions, app_connection_deployed>>

\* "Clear Chat History" pressed: lines 1303-1329
ClearChat ==
    /\ ReachesWidgets
    /\ messages' = <<Welcome>>
    /\ workflow_type' = None
    /\ workflow_name' = None
    /\ needs_connection' = FALSE
    /\ platform_type' = None
    /\ last_configs' = <<>>
    /\ deploy_results' = NoResults
    /\ continue_to_workflow' = FALSE
    /\ workflow_in_progress' = FALSE
    /\ connection_resolved' = FALSE
    /\ error_shown' = "none"
    /\ event' = "clear"
    /\ deployment' = NoCall
    /\ NoModelCall
    /\ pc' = "rerun"
    /\ UNCHANGED <<is_asking_questions, app_connection_deployed>>

Next ==
    \/ \E prompt \in Prompts, response \in Responses : ChatTurn(prompt, response)
    \/ \E prompt \in Prompts : ChatTurnError(prompt)
    \/ \E text \in ContinueTexts : ContinueTurn(text)
    \/ ContinueTurnError
    \/ AppConnDeployed
    \/ RerunDone
    \/ \E http \in SessionHttp(Keys(last_configs) \cap {"application", "connection"}) :
          PressDeployAppConn(http)
    \/ PressContinue
    \/ \E http \in SessionHttp(Keys(last_configs)) : PressDeployAll(http)
    \/ ClearChat

Spec == Init /\ [][Next]_vars

----------------------------------------------------------------------------
(* Properties of deploy_configurations and call_hdc_api *)

\* The position of a kind in application, connection, api, transform, workflow
Rank(kind) ==
    CASE kind = "application" -> 1
      [] kind = "connection"  -> 2
      [] kind = "api"         -> 3
      [] kind = "transform"   -> 4
      [] kind = "workflow"    -> 5

\* The kind whose endpoint a POST went to
KindOf(post) ==
    CASE post.endpoint = "/api/v1/applications" -> "application"
      [] post.endpoint = "/api/v1/connections"  -> "connection"
      [] post.endpoint = "/api/v1/apis"         -> "api"
      [] post.endpoint = "/api/v1/transforms"   -> "transform"
      [] post.endpoint = "/api/v1/workflows"    -> "workflow"

PostedKinds(call) == {KindOf(call.posts[i]) : i \in DOMAIN call.posts}

\* C1: in every deploy_configurations call the POSTs are issued in the order
\* application, connection, api, transform, workflow: of two POSTs of a call, the
\* earlier one is of the kind that comes first in that order, whatever the
\* insertion order of the input mapping.
C1_PostsInFixedOrder ==
    \A i, j \in DOMAIN deployment.posts :
        i < j => Rank(KindOf(deployment.posts[i])) < Rank(KindOf(deployment.posts[j]))

\* C1 witness: a call on a mapping inserted in the reverse order has returned
\* after posting all five kinds
C1_Witness ==
    /\ pc = "direct"
    /\ deployment.returned
    /\ Len(deployment.posts) = 5
    /\ [i \in 1..5 |-> deployment.configs[i].k] =
          <<"workflow", "transform", "api", "connection", "application">>

\* C2: a failed deployment of one kind does not abort the rest: when a call has
\* returned, every kind present in its input was posted and has a result entry,
\* also the kinds after one that failed.
C2_FailureDoesNotAbort ==
    deployment.returned =>
        \A k \in Keys(deployment.configs) :
            k \in PostedKinds(deployment) /\ Has(deployment.results, k)

\* C2 witness: application failed, and connection was still posted and has its
\* own result
C2_Witness ==
    /\ pc = "direct"
    /\ deployment.returned
    /\ Has(deployment.results, "application")
    /\ ~Get(deployment.results, "application").success
    /\ "connection" \in PostedKinds(deployment)
    /\ Has(deployment.results, "connection")
    /\ Get(deployment.results, "connection").success

NonSuccessStatus(status) == status < 200 \/ status > 299

\* C3: for every document posted, a non-2xx response or a transport failure
\* gives success = false with a detail from the response body (or the error
\* text), and no exception leaves call_hdc_api or deploy_configurations.
C3_FailuresAreReported ==
    /\ ~deployment.raised
    /\ deployment.returned =>
          \A i \in DOMAIN deployment.posts :
              LET post == deployment.posts[i]
                  res == Get(deployment.results, KindOf(post))
              IN /\ Has(deployment.results, KindOf(post))
                 /\ post.http.exc # "none" =>
                       /\ res.success = FALSE
                       /\ res.response.what \in
                             {"Connection Error", "Timeout Error", "Unexpected Error"}
                       /\ res.response.body = "error text"
                 /\ post.http.exc = "none" /\ NonSuccessStatus(post.http.status) =>
                       /\ res.success = FALSE
                       /\ res.response.what = "Status"
                       /\ res.response.status = post.http.status
                       /\ post.http.body # "empty" => res.response.body = post.http.body

\* C3 witness: requests.post raised an exception that is neither a connection
\* error nor a timeout, and the call returned a failed result for the document
C3_Witness ==
    /\ pc = "direct"
    /\ deployment.returned
    /\ Len(deployment.posts) = 1
    /\ deployment.posts[1].http.exc = "Exception"
    /\ ~deployment.results[1].v.success

\* C4: a kind absent from the input is skipped: no POST for it, no result entry
\* for it, and exactly one POST and one result entry for each present kind.
C4_AbsentKindsSkipped ==
    deployment.returned =>
        /\ PostedKinds(deployment) \subseteq Keys(deployment.configs)
        /\ Keys(deployment.results) \subseteq Keys(deployment.configs)
        /\ \A k \in Keys(deployment.configs) :
              /\ Cardinality({i \in DOMAIN deployment.results :
                                 deployment.results[i].k = k}) = 1
              /\ Cardinality({i \in DOMAIN deployment.posts :
                                 KindOf(deployment.posts[i]) = k}) = 1

\* C4 witness: a call on a mapping that holds only api and workflow has returned
C4_Witness ==
    /\ pc = "direct"
    /\ deployment.returned
    /\ Keys(deployment.configs) = {"api", "workflow"}
    /\ Keys(deployment.results) = {"api", "workflow"}

----------------------------------------------------------------------------
(* Properties of the session *)

\* C5 (as claimed): a workflow, api or transform document is stored only if the
\* workflow type has been selected (and the facts of that type collected).  The
\* session keeps no fact but the type, the platform and the name; the claim
\* requires at least the type.
C5_GenerationGated ==
    (\E k \in {"workflow", "api", "transform"} : Has(last_configs, k))
        => workflow_type # None

\* C6 (as claimed): for the HTTP-call types, workflow facts are not collected and
\* no workflow or api document is stored before connection handling is resolved.
C6_ConnectionResolvedFirst ==
    (/\ needs_connection
     /\ \/ Has(last_configs, "workflow")
        \/ Has(last_configs, "api")
        \/ workflow_in_progress)
        => connection_resolved

\* C7 (as claimed): after Clear Chat History every session-state field has its
\* initial value.
C7_ClearResetsEveryField == event = "clear" => SessionInit

\* C7 (amended): Clear Chat History gives every session-state field its initial
\* value except is_asking_questions, which keeps the value it had.
C7_ClearResetsAllButAsking ==
    [][event' = "clear" =>
          /\ messages' = <<Welcome>>
          /\ workflow_type' = None
          /\ workflow_name' = None
          /\ platform_type' = None
          /\ needs_connection' = FALSE
          /\ last_configs' = <<>>
          /\ deploy_results' = NoResults
          /\ continue_to_workflow' = FALSE
          /\ workflow_in_progress' = FALSE
          /\ app_connection_deployed' = FALSE
          /\ is_asking_questions' = is_asking_questions]_vars

\* C7 witness: the reset was pressed while questions were being asked
C7_Witness == event = "clear" /\ is_asking_questions

\* The full document set of a workflow type
FullSet(type) ==
    IF type = WorkflowTypes[1] THEN {"workflow", "api"}
    ELSE IF type = WorkflowTypes[2] THEN {"workflow", "api", "transform"}
    ELSE {"workflow", "transform"}

\* C8 (as claimed): "Deploy All Configurations to HDC" is offered only when
\* last_configs holds the full document set of the selected workflow type.
C8_DeployAllOnlyForFullSet ==
    (pc = "idle" /\ DeployAllButton /\ workflow_type # None)
        => FullSet(workflow_type) \subseteq Keys(last_configs)

\* C9 (as claimed): an application or connection document is stored only in
\* states where platform_type is Athena or Cerner.
C9_ConnectionDocsOnlyForSupportedPlatform ==
    has_app_or_connection => platform_type \in {"Athena", "Cerner"}

\* C10: a turn whose language-model call raises leaves workflow_type,
\* platform_type, workflow_name, needs_connection, last_configs, deploy_results
\* and every message of earlier turns as they were.
C10_FailedTurnKeepsState ==
    [][error_shown' = "llm" =>
          /\ workflow_type' = workflow_type
          /\ platform_type' = platform_type
          /\ workflow_name' = workflow_name
          /\ needs_connection' = needs_connection
          /\ last_configs' = last_configs
          /\ deploy_results' = deploy_results
          /\ Len(messages') >= Len(messages)
          /\ \A i \in DOMAIN messages : messages'[i] = messages[i]]_vars

\* C10 witness: the language-model call of a chat turn raised after a type was
\* selected and documents were stored
C10_Witness ==
    /\ error_shown = "llm"
    /\ event = "chat"
    /\ workflow_type # None
    /\ last_configs # <<>>
    /\ Len(messages) > 3

----------------------------------------------------------------------------
(* Properties of error reporting and of the document store *)

\* C11 (as claimed): no error is silently swallowed: a script run that received
\* a ```json block json.loads rejects shows an error, and a deployment with a
\* failed document records its results for display.
C11_NoErrorSwallowed ==
    /\ (\E i \in DOMAIN response_blocks : ~response_blocks[i].parses)
          => error_shown # "none"
    /\ (deployment.returned
          /\ \E i \in DOMAIN deployment.results : ~deployment.results[i].v.success)
          => deploy_results = Results(deployment.results)

\* The positions of the documents of kind K in the blocks of a response
DocsOfKind(blocks, K) ==
    {i \in DOMAIN blocks : blocks[i].parses /\ identify_config_type(blocks[i]) = K}

\* The last document of kind K in the blocks of a response
LastDocOfKind(blocks, K) ==
    blocks[CHOOSE i \in DocsOfKind(blocks, K) :
              \A j \in DocsOfKind(blocks, K) : j <= i].doc

\* C12 (as claimed): last_configs holds at most one document per kind, and after
\* a chat turn whose response contains documents of kind K, last_configs[K] is
\* the last document of kind K of that response.
C12_RegeneratedSupersedes ==
    /\ \A i, j \in DOMAIN last_configs :
          last_configs[i].k = last_configs[j].k => i = j
    /\ (event = "chat" /\ error_shown # "llm") =>
          \A K \in ConfigKinds :
              DocsOfKind(response_blocks, K) # {} =>
                  /\ Has(last_configs, K)
                  /\ Get(last_configs, K) = LastDocOfKind(response_blocks, K)

\* What C12 says of the turns that store all their blocks: the same, for the
\* chat turns in which identify_config_type did not raise
SupersedesWhenStored ==
    /\ \A i, j \in DOMAIN last_configs :
          last_configs[i].k = last_configs[j].k => i = j
    /\ (event = "chat" /\ error_shown = "none") =>
          \A K \in ConfigKinds :
              DocsOfKind(response_blocks, K) # {} =>
                  /\ Has(last_configs, K)
                  /\ Get(last_configs, K) = LastDocOfKind(response_blocks, K)

----------------------------------------------------------------------------
(* Properties of the external calls *)

\* C13: an HTTP POST to the HDC service is issued only by the script run of a
\* press of "Deploy Application & Connection Now" or of "Deploy All
\* Configurations to HDC": every other script run (chat turn, rerun, continue
\* step, reset) issues none.
C13_PostsOnlyOnDeployPress ==
    [][deployment'.posts # <<>> =>
          /\ event' \in {"deploy_app_connection", "deploy_all"}
          /\ \/ AppConnButtons /\ event' = "deploy_app_connection"
             \/ DeployAllButton /\ event' = "deploy_all"
          /\ \A i \in DOMAIN deployment'.posts :
                /\ Has(last_configs, KindOf(deployment'.posts[i]))
                /\ deployment'.posts[i].payload =
                      Get(last_configs, KindOf(deployment'.posts[i]))]_vars

\* C13 witness: "Deploy All Configurations to HDC" was pressed after chat turns
\* had stored documents, and the documents were posted
C13_Witness ==
    /\ event = "deploy_all"
    /\ Len(deployment.posts) >= 2
    /\ Len(messages) > 3

\* Each present kind of a returned deploy_configurations call was posted once
PostedOncePerKind ==
    deployment.returned =>
        /\ \A i, j \in DOMAIN deployment.posts :
              KindOf(deployment.posts[i]) = KindOf(deployment.posts[j]) => i = j
        /\ Keys(deployment.configs) \subseteq PostedKinds(deployment)

C15_EveryCallTerminates ==
    <>(/\ deployment.returned
       /\ \A k \in Keys(deployment.configs) : Has(deployment.results, k))

----------------------------------------------------------------------------
(* Properties of the documents the session holds *)

\* The step types the system prompt gives for a workflow type (lines 409-481)
FixedSteps(type) ==
    IF type = WorkflowTypes[1]
    THEN <<"HttpCallStep", "DeserializeObjectStep", "SetReturnDataStep">>
    ELSE IF type = WorkflowTypes[2] THEN <<"HttpCallStep", "SetReturnDataStep">>
    ELSE IF type = WorkflowTypes[3] THEN <<"DataTransformStep", "SetReturnDataStep">>
    ELSE <<"HL7TransformStep", "SetReturnDataStep">>

HasTransformId(step) == \E in \in step.input : in[1] = "transformId"

\* C16 (as claimed): the Workflow held for a selected workflow type consists of
\* exactly the fixed step sequence of that type (the HttpCall step carrying a
\* transformId for type 2 only), with sequence numbers contiguous from 0.
C16_FixedStepSequence ==
    (Has(last_configs, "workflow") /\ workflow_type # None) =>
        LET steps == WorkflowSteps(Get(last_configs, "workflow"))
        IN /\ [i \in DOMAIN steps |-> steps[i].stepType] = FixedSteps(workflow_type)
           /\ \A i \in DOMAIN steps : steps[i].sequence = i - 1
           /\ \A i \in DOMAIN steps :
                 steps[i].stepType = "HttpCallStep" =>
                     (HasTransformId(steps[i]) <=> workflow_type = WorkflowTypes[2])

\* C17 (as claimed): in the Workflow held, every step after the first has an
\* input value equal to an output key of a strictly earlier step, and no input
\* value equal to an output value of an earlier step.
C17_VariablesChained ==
    Has(last_configs, "workflow") =>
        LET steps == WorkflowSteps(Get(last_configs, "workflow"))
        IN \A i \in DOMAIN steps :
              i > 1 =>
                  /\ \E in \in steps[i].input, j \in 1..(i - 1) :
                        \E out \in steps[j].output : in[2] = out[1]
                  /\ ~ \E in \in steps[i].input, j \in 1..(i - 1) :
                        \E out \in steps[j].output : in[2] = out[2]

\* C18 (as claimed): in the Workflow held, the output values are the constants
\* of the step type: ResponseData as the one output of an HttpCall step without
\* transformId, TransformedData for the transform key of one with transformId,
\* OutputObject for DeserializeObject, TransformedData for the transform steps.
C18_OutputValuesFixed ==
    Has(last_configs, "workflow") =>
        LET steps == WorkflowSteps(Get(last_configs, "workflow"))
        IN \A i \in DOMAIN steps :
              LET step == steps[i]
                  values == {out[2] : out \in step.output}
              IN /\ (step.stepType = "HttpCallStep" /\ ~HasTransformId(step)) =>
                        (Cardinality(step.output) = 1 /\ values = {"ResponseData"})
                 /\ (step.stepType = "HttpCallStep" /\ HasTransformId(step)) =>
                        <<"transformedData", "TransformedData">> \in step.output
                 /\ step.stepType = "DeserializeObjectStep" => values = {"OutputObject"}
                 /\ step.stepType \in {"DataTransformStep", "HL7TransformStep"} =>
                        values = {"TransformedData"}

\* The path rules of lines 536-573: the first segment is apiPath, every later
\* segment is one pathParameters entry, in order
SplitPath(template) ==
    [apiPath |-> template[1].name,
     pathParameters |->
        [i \in 1..(Len(template) - 1) |->
            PathParameter(template[i + 1].name,
                          IF template[i + 1].dynamic THEN "Value" ELSE "Literal")]]

\* C19 (as claimed): in the API document held, apiPath is the first segment of
\* the path template and pathParameters has exactly one entry for every later
\* segment, in order, Value for a placeholder and Literal otherwise.
C19_PathSplit ==
    Has(last_configs, "api") =>
        LET api == ApiDoc(Get(last_configs, "api"))
        IN /\ api.apiPath = SplitPath(api.template).apiPath
           /\ api.pathParameters = SplitPath(api.template).pathParameters

\* C20 (as claimed): in the Data Transform held, a property group with a
\* locator holds no path that indexes into the located array, and no two
\* groups stand for two indexes of one array.
C20_OneIteratingGroup ==
    Has(last_configs, "transform") =>
        LET groups == TransformGroups(Get(last_configs, "transform"))
        IN /\ \A g \in DOMAIN groups :
                 groups[g].locator # "" =>
                     \A path \in groups[g].paths : path.array # groups[g].locator
           /\ ~ \E g, h \in DOMAIN groups :
                 /\ g # h
                 /\ \E p \in groups[g].paths, q \in groups[h].paths :
                       p.array # "" /\ p.array = q.array /\ p.index # q.index

----------------------------------------------------------------------------
(* Properties of a session's course *)

\* C21 (as claimed): generation is deterministic: two chat turns that start in
\* the same session state with the same prompt end with the same stored
\* documents.  The two runs differ only in what the language model, sampled at
\* temperature 0.2 (line 1067), responds.
C21_GenerationDeterministic ==
    (pc = "idle" /\ ~ContinueGuard) =>
        \A prompt \in Prompts : \A r1, r2 \in Responses :
            StoreConfigs(last_configs, extract_json_blocks(r1), 1).configs =
                StoreConfigs(last_configs, extract_json_blocks(r2), 1).configs

AllPostedSucceeded(call) == \A i \in DOMAIN call.results : call.results[i].v.success

\* C22: when "Deploy Application & Connection Now" is pressed and every posted
\* document succeeds, the application and connection entries leave last_configs
\* and every other entry stays, app_connection_deployed is set, and the run
\* that follows sets app_connection_deployed back to false and sets
\* continue_to_workflow and workflow_in_progress.
C22_SuccessfulAppConnDeploy ==
    [][/\ (event' = "deploy_app_connection" /\ AllPostedSucceeded(deployment')) =>
            /\ ~ \E k \in {"application", "connection"} : Has(last_configs', k)
            /\ last_configs' = Without(last_configs, {"application", "connection"})
            /\ \A k \in Keys(last_configs) \ {"application", "connection"} :
                  Has(last_configs', k) /\ Get(last_configs', k) = Get(last_configs, k)
            /\ app_connection_deployed'
            /\ pc' = "rerun"
       /\ app_connection_deployed =>
            /\ ~app_connection_deployed'
            /\ continue_to_workflow'
            /\ workflow_in_progress']_vars

\* C22 witness: the press succeeded while an API document was stored as well,
\* and the API document is still stored
C22_Witness ==
    /\ event = "deploy_app_connection"
    /\ app_connection_deployed
    /\ Len(deployment.posts) = 2
    /\ Has(last_configs, "api")

\* C23: when "Deploy Application & Connection Now" is pressed and a posted
\* document fails, last_configs is unchanged, deploy_results holds the outcome
\* of every posted kind, app_connection_deployed stays false,
\* continue_to_workflow and workflow_in_progress are unchanged, and the run that
\* follows does not advance to workflow setup.
C23_FailedAppConnDeploy ==
    [][/\ (event' = "deploy_app_connection" /\ ~AllPostedSucceeded(deployment')) =>
            /\ last_configs' = last_configs
            /\ deploy_results' = Results(deployment'.results)
            /\ Keys(deployment'.results) =
                  Keys(last_configs) \cap {"application", "connection"}
            /\ ~app_connection_deployed /\ ~app_connection_deployed'
            /\ continue_to_workflow' = continue_to_workflow
            /\ workflow_in_progress' = workflow_in_progress
       /\ (event = "deploy_app_connection" /\ pc = "rerun" /\ ~app_connection_deployed) =>
            /\ event' = "rerun"
            /\ UNCHANGED session]_vars

\* C23 witness: of two posted documents one succeeded and one failed, and both
\* are still stored
C23_Witness ==
    /\ event = "deploy_app_connection"
    /\ ~deploy_results.none
    /\ \E i, j \in DOMAIN deploy_results.results :
          /\ deploy_results.results[i].v.success
          /\ ~deploy_results.results[j].v.success
    /\ Has(last_configs, "application")
    /\ Has(last_configs, "connection")

\* The kinds identify_config_type gives the blocks of a response that parse
ResponseKinds(blocks) ==
    {identify_config_type(blocks[i]) : i \in {j \in DOMAIN blocks : blocks[j].parses}}

\* C24 (as claimed): the "Application and Connection configurations are ready"
\* closing is given only to a response that holds an application or connection
\* document and no document of another kind; a response whose blocks are all of
\* no kind does not get it.
C24_ClosingOnlyForAppConn ==
    (/\ event = "chat"
     /\ error_shown = "none"
     /\ messages[Len(messages)].content.ready) =>
        /\ ResponseKinds(response_blocks) \cap {"application", "connection"} # {}
        /\ ResponseKinds(response_blocks) \ {None} \subseteq {"application", "connection"}

\* C25 (as claimed): after "Continue to Workflow First" was pressed, or after a
\* successful Application & Connection deploy was taken note of, the next script
\* run injects the trigger message; and a run injects it only when
\* continue_to_workflow is set, which the injection clears.
C25_TriggerInjectedOnce ==
    [][/\ (pc = "rerun" /\ continue_to_workflow /\ event \in {"continue", "rerun"}) =>
            event' = "trigger"
       /\ event' = "trigger" =>
            /\ continue_to_workflow
            /\ ~continue_to_workflow'
            /\ messages'[Len(messages) + 1] = Msg("user", trigger_message)]_vars

\* C26 (as claimed): deploy_results is cleared whenever a stored document is
\* replaced, added or removed, so that results on display are those of the
\* documents stored.
C26_ResultsNeverStale ==
    [][last_configs' # last_configs => deploy_results' = NoResults]_vars

HttpCallTypes == {WorkflowTypes[1], WorkflowTypes[2]}

\* C27: once workflow_type is set, no script run but that of Clear Chat History
\* changes workflow_type or needs_connection, and once platform_type is set none
\* but that one changes it; Clear Chat History resets the three.
C27_SelectionSticky ==
    [][/\ (workflow_type # None /\ event' # "clear") =>
            /\ workflow_type' = workflow_type
            /\ needs_connection' = needs_connection
       /\ (platform_type # None /\ event' # "clear") =>
            platform_type' = platform_type
       /\ event' = "clear" =>
            /\ workflow_type' = None
            /\ ~needs_connection'
            /\ platform_type' = None]_vars

\* C27 witness: an HTTP-call type was selected, and a later chat turn whose
\* prompt named option 4 and Cerner (the one prompt that gives Cerner) recorded
\* the platform and left the type as it was
C27_Witness ==
    /\ event = "chat"
    /\ workflow_type \in HttpCallTypes
    /\ platform_type = "Cerner"

\* C28: needs_connection is true exactly when workflow_type is one of the two
\* HTTP-call types.
C28_NeedsConnectionIffHttpCall ==
    needs_connection <=> workflow_type \in HttpCallTypes

\* C28 witness: a transform-only type is selected, documents are stored, and
\* needs_connection is false
C28_Witness ==
    /\ workflow_type = WorkflowTypes[3]
    /\ ~needs_connection
    /\ last_configs # <<>>

\* C29: platform_type is None, Athena or Cerner, and it is not None only if
\* needs_connection is true.
C29_PlatformOnlyWithConnection ==
    /\ platform_type \in {None, "Athena", "Cerner"}
    /\ platform_type # None => needs_connection

\* C29 witness: type 4 was selected by the prompt that also names Cerner (the
\* one prompt that selects it), and no platform was recorded
C29_Witness ==
    /\ event = "chat"
    /\ workflow_type = WorkflowTypes[4]
    /\ platform_type = None

\* C30 (as claimed): while is_asking_questions is true last_configs is empty.
C30_AskingImpliesNoDocuments ==
    is_asking_questions => last_configs = <<>>

----------------------------------------------------------------------------
(* call_hdc_api: which answers count as a success *)

SuccessStatuses == {200, 201, 204}

\* C31: call_hdc_api reports success = true exactly when requests.post returned
\* a response whose status is 200, 201 or 204, whatever its body (empty, blank,
\* JSON or other text); every other status, 202 included, and every transport
\* failure is reported as success = false.
C31_SuccessIffStatus ==
    deployment.returned =>
        \A i \in DOMAIN deployment.posts :
            LET post == deployment.posts[i]
            IN /\ Has(deployment.results, KindOf(post))
               /\ Get(deployment.results, KindOf(post)).success
                      <=> (post.http.exc = "none" /\ post.http.status \in SuccessStatuses)

\* C31 witness: the service answered 201 with a body that is not JSON, and the
\* call returned success = true with the text as its message
C31_Witness ==
    /\ pc = "direct"
    /\ deployment.returned
    /\ Len(deployment.posts) = 1
    /\ deployment.posts[1].http = Http("none", 201, "text")
    /\ deployment.results[1].v.success
    /\ deployment.results[1].v.response.what = "message"

----------------------------------------------------------------------------
(* Template documents *)

\* the key identify_config_type recognises each kind by
IdKey ==
    [k \in ConfigKinds |->
        CASE k = "workflow"    -> "workflowId"
          [] k = "api"         -> "apiId"
          [] k = "transform"   -> "transformId"
          [] k = "application" -> "applicationId"
          [] k = "connection"  -> "connectionId"]

\* a block that is a Template and nothing else: of the id keys it has templateId only
TemplateOnly(b) ==
    /\ b.parses
    /\ b.container
    /\ "templateId" \in b.keys
    /\ b.keys \cap {IdKey[k] : k \in ConfigKinds} = {}

\* C32: a Template document is never stored or deployed.  On every step, the
\* store has entries for the five kinds only; an entry that is new or changed
\* is the document of a block of this turn's response that parses and carries
\* the id key of the entry's kind (so a block whose only id key is templateId
\* gives no entry); and every POST of a deployment started by the step goes to
\* the endpoint of one of the five kinds with the document stored for that
\* kind.  This holds also when the stored api document has a bodyTemplateId.
C32_TemplateNeverStored ==
    [][ /\ Keys(last_configs') \subseteq ConfigKinds
        /\ \A i \in DOMAIN last_configs' :
              LET e == last_configs'[i]
              IN \/ Has(last_configs, e.k) /\ Get(last_configs, e.k) = e.v
                 \/ \E j \in DOMAIN response_blocks' :
                       /\ response_blocks'[j].parses
                       /\ IdKey[e.k] \in response_blocks'[j].keys
                       /\ response_blocks'[j].doc = e.v
        /\ deployment' # deployment =>
              \A j \in DOMAIN deployment'.posts :
                  LET post == deployment'.posts[j]
                  IN \E k \in ConfigKinds :
                        /\ post.endpoint = endpoint_map[k]
                        /\ Has(last_configs, k)
                        /\ post.payload = Get(last_configs, k)
      ]_vars

\* C32 witness: a chat turn whose response held an api document with a
\* bodyTemplateId, the Template it names and a workflow has ended; the store
\* holds the api and the workflow and nothing for the Template, the Deploy All
\* button is offered, and pressing it posts the api and the workflow only
C32_Witness ==
    /\ pc = "idle"
    /\ event = "chat"
    /\ \E j \in DOMAIN response_blocks : TemplateOnly(response_blocks[j])
    /\ \E j \in DOMAIN response_blocks :
          {"apiId", "bodyTemplateId"} \subseteq response_blocks[j].keys
    /\ Keys(last_configs) = {"api", "workflow"}
    /\ ReachesWidgets
    /\ DeployAllButton
    /\ LET call == deploy_configurations(last_configs,
                        [k \in Keys(last_configs) |-> Http("none", 200, "json")])
       IN /\ call.returned
          /\ PostedKinds(call) = {"api", "workflow"}
          /\ Len(call.posts) = 2

====
